---- MODULE Spec2Model ----
(***************************************************************************)
(* A model of the Paxos node of src/paxos.py (PaxosNode), the proposal and *)
(* liveness types of src/main.py and the audit logger of src/logger.py.    *)
(*                                                                         *)
(* The cluster is the dict `nodes` the drivers build (src/test_paxos.py    *)
(* setUp, src/example_usage.py): node ids 1..node_count, every node        *)
(* constructed with the same node_count and sharing one PaxosLogger.       *)
(* Method calls between nodes are synchronous in the source, so a call     *)
(* made by the driver, with every call it makes in turn, is one step.      *)
(* The drivers are the test cases and examples of the repository: they     *)
(* assign node.state and call send_prepare, send_accept and                *)
(* receive_broadcast.                                                      *)
(***************************************************************************)
EXTENDS Integers, Sequences, FiniteSets, TLC

\* self.node_count of the small cluster fixture
node_count == 3

\* proposal numbers the drivers use are 1..MaxBallot
MaxBallot == 2

\* number of statements the driver executes on the cluster
MaxSteps == 4

\* NodeState enum values
UP == "Up"
DOWN == "Down"
BLOCKED == "Blocked"
NodeState == {UP, DOWN, BLOCKED}

\* Python's None object (distinct from every string the drivers propose)
None == "<None>"

\* the values the drivers propose
Values == {"a", "b"}

Nodes == 1..node_count

\* the dataclass Proposal(node_id, proposal_number, value)
Proposal == [node_id : Nodes, proposal_number : 1..MaxBallot, value : Values]

\* keys of acceptance_counts: (proposal_number, value)
Keys == (1..MaxBallot) \X Values

VARIABLES
    nodes,      \* node id -> the fields of that PaxosNode object
    round,      \* logger._round of the PaxosLogger the nodes share
    steps       \* statements the driver has executed on the cluster so far

vars == <<nodes, round, steps>>

----------------------------------------------------------------------------
\* str() of the objects the source formats

Digits == <<"0", "1", "2", "3", "4", "5", "6", "7", "8", "9">>

\* str(n) of an int 0 <= n <= 9
StrInt(n) == Digits[n + 1]

\* str(x) of None or of a str
StrVal(x) == IF x = None THEN "None" ELSE x

\* truth value of None or of a str
Truthy(x) == x # None /\ x # ""

----------------------------------------------------------------------------
\* PaxosLogger

\* PaxosLogger.record_log: the entry appended (roles and timestamp left out)
record_log(from_node_id, from_node_state, to_node_id, to_node_state, action, action_value, consensus_value, consensus_reached) ==
    [round |-> round,
     from_node_id |-> from_node_id, from_node_state |-> from_node_state,
     to_node_id |-> to_node_id, to_node_state |-> to_node_state,
     action |-> action, action_value |-> action_value,
     consensus_value |-> consensus_value,
     consensus_reached |-> consensus_reached]

----------------------------------------------------------------------------
\* PaxosNode.  A method is an operator from the node's fields (self) and its
\* arguments to [node |-> the fields afterwards, log |-> the entries it
\* appended, ret |-> what it returned].

\* PaxosNode.__init__
NewNode(node_id) ==
    [node_id |-> node_id,
     totalnodecount |-> node_count,
     state |-> UP,
     last_consensus |-> None,
     consensus_reached |-> FALSE,
     received_promises |-> {},
     acceptance_counts |-> [k \in Keys |-> 0]]   \* 0: key not in the dict

\* a handler that also runs on a BLOCKED node
handles_unless_down(self) == self.state # DOWN

\* if self.state == NodeState.UP, the guard of every receiving handler
handles(self) == self.state = UP

\* PaxosNode.log_state_change
log_state_change(self) ==
    record_log(self.node_id, self.state, self.node_id, self.state,
               "ConsensusStateUpdate", StrVal(self.last_consensus),
               StrVal(self.last_consensus), self.consensus_reached)

\* a reset that records the state but leaves the flag as it is
reset_keeps_flag(self) ==
    [node |-> self,
     log |-> << record_log(self.node_id, self.state, self.node_id, self.state,
                    "ConsensusStateUpdate", StrVal(self.last_consensus),
                    StrVal(self.last_consensus), self.consensus_reached) >>,
     ret |-> <<>>]

\* PaxosNode.reset_consensus_reached
reset_consensus_reached(self) ==
    LET s == [self EXCEPT !.consensus_reached = FALSE]
    IN  [node |-> s, log |-> <<log_state_change(s)>>, ret |-> <<>>]

\* PaxosNode.set_consensus
set_consensus(self, value) ==
    IF self.last_consensus # value
    THEN LET s == [self EXCEPT !.last_consensus = value,
                               !.consensus_reached = TRUE]
             r == reset_consensus_reached(s)
         IN  [node |-> r.node, log |-> <<log_state_change(s)>> \o r.log,
              ret |-> <<>>]
    ELSE [node |-> self, log |-> <<>>, ret |-> <<>>]

\* a send_promise that keeps only the latest proposal number
promises_replace(received_promises, proposal) == {proposal.proposal_number}

\* the set self.received_promises after send_promise's add
promises_add(received_promises, proposal) ==
    received_promises \cup {proposal.proposal_number}

\* a send_promise that refuses a number below one already promised
send_promise_if_highest(self, proposal) ==
    IF handles(self)
       /\ \A x \in self.received_promises : x <= proposal.proposal_number
    THEN [node |-> [self EXCEPT !.received_promises =
                        promises_add(@, proposal)],
          log |-> <<>>,
          ret |-> << [proposal_number |-> proposal.proposal_number,
                      node_id |-> self.node_id,
                      last_consensus |-> StrVal(self.last_consensus),
                      consensus_achieved |-> self.last_consensus # None] >>]
    ELSE [node |-> self, log |-> <<>>, ret |-> <<>>]

\* PaxosNode.send_promise
send_promise(self, proposal) ==
    IF handles(self)
    THEN LET consensus_achieved == self.last_consensus # None
             consensus_value == IF consensus_achieved
                                THEN self.last_consensus ELSE "None"
         IN  [node |-> [self EXCEPT !.received_promises =
                            promises_add(@, proposal)],
              log |-> << record_log(self.node_id, self.state,
                             proposal.node_id, "Unknown", "PromiseSend",
                             StrInt(proposal.proposal_number),
                             StrVal(consensus_value), consensus_achieved) >>,
              ret |-> << [proposal_number |-> proposal.proposal_number,
                          node_id |-> self.node_id,
                          last_consensus |-> consensus_value,
                          consensus_achieved |-> consensus_achieved] >>]
    ELSE [node |-> self, log |-> <<>>, ret |-> <<>>]

\* PaxosNode.receive_prepare
receive_prepare(self, proposal) ==
    IF handles(self)
    THEN LET r == send_promise(self, proposal)
         IN  [node |-> r.node,
              log |-> << record_log(proposal.node_id, self.state,
                             self.node_id, self.state, "PrepareReceive",
                             "None",
                             IF Truthy(self.last_consensus)
                             THEN StrVal(self.last_consensus) ELSE "None",
                             FALSE) >>
                      \o r.log
                      \o << IF self.last_consensus # None
                            THEN record_log(self.node_id, self.state,
                                     proposal.node_id, self.state,
                                     "PromiseSend", "ExistingConsensus",
                                     StrVal(self.last_consensus), FALSE)
                            ELSE record_log(self.node_id, self.state,
                                     proposal.node_id, "Unknown",
                                     "PromiseSend", "NewPromise",
                                     "None", FALSE) >>,
              ret |-> <<>>]
    ELSE [node |-> self, log |-> <<>>, ret |-> <<>>]

\* majority_needed = self.totalnodecount // 2 + 1 (the promise check)
majority_needed(self) == (self.totalnodecount \div 2) + 1

\* the first element the loop over self.received_promises visits (small
\* ints hash to themselves, so a set of them is visited in ascending order)
first_of(S) == CHOOSE x \in S : \A y \in S : x <= y

\* a decision that adopts the value the promise reports
decide_adopts_value(self, proposal) ==
    [node |-> [self EXCEPT !.last_consensus = proposal.value],
     log |-> <<>>, ret |-> <<>>]

\* PaxosNode.decide_on_promises_received: every element of the set is
\* counted once, so the count that is compared with majority_needed is 1
decide_on_promises_received(self, proposal) ==
    IF self.received_promises # {} /\ 1 >= majority_needed(self)
    THEN [node |-> self,
          log |-> << record_log(self.node_id, self.state, self.node_id,
                         self.state, "ConsensusAchieved",
                         StrInt(first_of(self.received_promises)),
                         StrInt(first_of(self.received_promises)), TRUE) >>,
          ret |-> <<>>]
    ELSE [node |-> self, log |-> <<>>, ret |-> <<>>]

\* PaxosNode.receive_promise
receive_promise(self, proposal) ==
    LET s == [self EXCEPT !.received_promises =
                  @ \cup {proposal.proposal_number}]
        r == decide_on_promises_received(s, proposal)
    IN  [node |-> r.node,
         log |-> << record_log(proposal.node_id, self.state, self.node_id,
                        self.state, "PromiseReceive",
                        StrInt(proposal.proposal_number),
                        IF Truthy(proposal.value)
                        THEN StrVal(proposal.value) ELSE "None",
                        FALSE) >> \o r.log,
         ret |-> <<>>]

\* a go_down that takes the node down
go_down_sets_state(self) ==
    [node |-> [self EXCEPT !.state = DOWN], log |-> <<>>, ret |-> <<>>]

\* PaxosNode.go_down
go_down(self) == [node |-> self, log |-> <<>>, ret |-> <<>>]

\* a majority taken over the nodes that are UP instead of the configured ones
majority_of_live(self) ==
    (Cardinality({n \in Nodes : nodes[n].state = UP}) \div 2) + 1

\* majority = self.totalnodecount // 2 + 1 (the accept check)
majority(self) == (self.totalnodecount \div 2) + 1

\* the acceptance key of a proposal
key(proposal) == <<proposal.proposal_number, proposal.value>>

\* a count that stops at the majority of three
counts_saturate(acceptance_counts, proposal) ==
    [acceptance_counts EXCEPT
         ![<<proposal.proposal_number, proposal.value>>] =
             IF @ >= 2 THEN @ ELSE @ + 1]

\* an increment written as an assignment: the count is set to 1
counts_set(acceptance_counts, proposal) ==
    [acceptance_counts EXCEPT ![<<proposal.proposal_number, proposal.value>>] = 1]

\* self.acceptance_counts after receive_accept's increment
counts_add(acceptance_counts, proposal) ==
    [acceptance_counts EXCEPT ![key(proposal)] = @ + 1]

\* consensus_reached = self.acceptance_counts[key] >= majority
accept_reaches_consensus(self, proposal) ==
    self.acceptance_counts[key(proposal)] >= majority(self)

\* PaxosNode.receive_accept
receive_accept(self, proposal) ==
    IF handles(self)
    THEN LET s1 == [self EXCEPT !.acceptance_counts =
                        counts_add(@, proposal)]
             consensus_reached == accept_reaches_consensus(s1, proposal)
             e == record_log(proposal.node_id, self.state, self.node_id,
                      self.state, "AcceptReceive", StrVal(proposal.value),
                      StrVal(proposal.value), consensus_reached)
         IN  IF consensus_reached
             THEN LET r == reset_consensus_reached(
                               [s1 EXCEPT !.last_consensus = proposal.value])
                  IN  [node |-> r.node, log |-> <<e>> \o r.log, ret |-> <<>>]
             ELSE [node |-> s1, log |-> <<e>>, ret |-> <<>>]
    ELSE [node |-> self, log |-> <<>>, ret |-> <<>>]

\* a broadcast that does not overwrite a value the node already holds
broadcast_value_first_wins(self, proposal) ==
    IF self.last_consensus # None THEN self.last_consensus ELSE proposal.value

\* the value receive_broadcast leaves in self.last_consensus
broadcast_value(self, proposal) == proposal.value

\* PaxosNode.receive_broadcast
receive_broadcast(self, proposal) ==
    IF handles(self)
    THEN LET r == set_consensus(self, broadcast_value(self, proposal))
         IN  [node |-> [r.node EXCEPT !.last_consensus =
                            broadcast_value(self, proposal)],
              log |-> r.log \o
                      << record_log(proposal.node_id, self.state,
                             self.node_id, self.state, "BroadcastReceive",
                             StrVal(proposal.value), StrVal(proposal.value),
                             TRUE) >>,
              ret |-> <<>>]
    ELSE [node |-> self, log |-> <<>>, ret |-> <<>>]

\* the concatenation f[1] \o ... \o f[k] (the loop over nodes.values())
RECURSIVE Concat(_, _)
Concat(f, k) == IF k = 0 THEN <<>> ELSE Concat(f, k - 1) \o f[k]

\* a sender that sends whatever its own state
may_send_always(self) == TRUE

\* if self.state == NodeState.UP, the guard of send_prepare and send_accept
may_send(self) == self.state = UP

\* a loop that skips the sender's own entry in the node map
delivers_to_others(self, node) ==
    node.state = UP /\ node.node_id # self.node_id

\* if node.state == NodeState.UP, the guard inside the loop over the nodes
delivers(self, node) == node.state = UP

\* PaxosNode.send_prepare: [nodes |-> the dict afterwards, log |-> entries]
send_prepare(self, ns, proposal) ==
    IF may_send(self)
    THEN LET r == [n \in Nodes |-> receive_prepare(ns[n], proposal)]
             sent(n) ==
                 IF delivers(self, ns[n])
                 THEN r[n].log \o
                      << record_log(self.node_id, self.state, n,
                             ns[n].state, "PrepareSend",
                             StrInt(proposal.proposal_number),
                             IF Truthy(self.last_consensus)
                             THEN StrVal(self.last_consensus) ELSE "None",
                             FALSE) >>
                 ELSE << record_log(self.node_id, self.state, n, "DOWN",
                             "PrepareNotSent",
                             StrInt(proposal.proposal_number),
                             IF Truthy(self.last_consensus)
                             THEN StrVal(self.last_consensus) ELSE "None",
                             FALSE) >>
         IN  [nodes |-> [n \in Nodes |->
                            IF delivers(self, ns[n]) THEN r[n].node
                            ELSE ns[n]],
              log |-> Concat([n \in Nodes |-> sent(n)], node_count)]
    ELSE [nodes |-> ns,
          log |-> << record_log(self.node_id, "DOWN", "N/A", "N/A",
                         "PrepareNotSent", "N/A", "N/A", FALSE) >>]

\* PaxosNode.send_accept
send_accept(self, ns, proposal) ==
    IF may_send(self)
    THEN LET r == [n \in Nodes |-> receive_accept(ns[n], proposal)]
             sent(n) ==
                 IF delivers(self, ns[n])
                 THEN << record_log(self.node_id, self.state, n,
                             ns[n].state, "AcceptSend",
                             StrInt(proposal.proposal_number),
                             StrVal(proposal.value), FALSE) >>
                      \o r[n].log
                 ELSE <<>>
         IN  [nodes |-> [n \in Nodes |->
                            IF delivers(self, ns[n]) THEN r[n].node
                            ELSE ns[n]],
              log |-> Concat([n \in Nodes |-> sent(n)], node_count)]
    ELSE [nodes |-> ns, log |-> <<>>]

----------------------------------------------------------------------------
\* The driver's steps.  logger.entries is append-only and no method of
\* PaxosNode reads it; what a call appends to it is the log field of the
\* method's result above, and the accumulated list is not kept.

Init ==
    /\ nodes = [n \in Nodes |-> NewNode(n)]
    /\ round = 1
    /\ steps = 0

\* nodes[n].state = s, the fault injection of the drivers
SetState(n, s) ==
    /\ steps < MaxSteps
    /\ nodes[n].state # s
    /\ nodes' = [nodes EXCEPT ![n].state = s]
    /\ steps' = steps + 1
    /\ UNCHANGED round

\* nodes[i].send_prepare(nodes, proposal), the proposal being the caller's
SendPrepare(i, proposal) ==
    /\ steps < MaxSteps
    /\ proposal.node_id = i
    /\ nodes' = send_prepare(nodes[i], nodes, proposal).nodes
    /\ steps' = steps + 1
    /\ UNCHANGED round

\* nodes[i].send_accept(nodes, proposal), the proposal being the caller's
SendAccept(i, proposal) ==
    /\ steps < MaxSteps
    /\ proposal.node_id = i
    /\ nodes' = send_accept(nodes[i], nodes, proposal).nodes
    /\ steps' = steps + 1
    /\ UNCHANGED round

\* nodes[n].receive_broadcast(proposal)
ReceiveBroadcast(n, proposal) ==
    /\ steps < MaxSteps
    /\ nodes' = [nodes EXCEPT ![n] = receive_broadcast(nodes[n], proposal).node]
    /\ steps' = steps + 1
    /\ UNCHANGED round

Next ==
    \/ \E n \in Nodes, s \in NodeState : SetState(n, s)
    \/ \E i \in Nodes, p \in Proposal : SendPrepare(i, p)
    \/ \E i \in Nodes, p \in Proposal : SendAccept(i, p)
    \/ \E n \in Nodes, p \in Proposal : ReceiveBroadcast(n, p)

Spec == Init /\ [][Next]_vars

\* A driver that also calls the handlers of a node directly, as the tests do

\* calls of a run that calls handlers directly
MaxCalls == 2

\* the call returned leaving the node as in r.node
Returns(n, r) ==
    /\ steps < MaxCalls
    /\ nodes' = [nodes EXCEPT ![n] = r.node]
    /\ steps' = steps + 1
    /\ UNCHANGED round

\* nodes[n].receive_prepare(proposal)
ReceivePrepare(n, proposal) == Returns(n, receive_prepare(nodes[n], proposal))

\* nodes[n].send_promise(proposal)
SendPromise(n, proposal) == Returns(n, send_promise(nodes[n], proposal))

\* nodes[n].receive_promise(proposal)
ReceivePromise(n, proposal) == Returns(n, receive_promise(nodes[n], proposal))

\* nodes[n].receive_accept(proposal)
ReceiveAccept(n, proposal) == Returns(n, receive_accept(nodes[n], proposal))

\* nodes[n].set_consensus(value)
SetConsensus(n, value) == Returns(n, set_consensus(nodes[n], value))

\* nodes[n].go_down()
GoDown(n) == Returns(n, go_down(nodes[n]))

\* nodes[n].reset_consensus_reached()
ResetConsensusReached(n) == Returns(n, reset_consensus_reached(nodes[n]))

NextHandlers ==
    \/ \E n \in Nodes, s \in NodeState : steps < MaxCalls /\ SetState(n, s)
    \/ \E i \in Nodes, p \in Proposal : steps < MaxCalls /\ SendPrepare(i, p)
    \/ \E i \in Nodes, p \in Proposal : steps < MaxCalls /\ SendAccept(i, p)
    \/ \E n \in Nodes, p \in Proposal :
            steps < MaxCalls /\ ReceiveBroadcast(n, p)
    \/ \E n \in Nodes, p \in Proposal : ReceivePrepare(n, p)
    \/ \E n \in Nodes, p \in Proposal : SendPromise(n, p)
    \/ \E n \in Nodes, p \in Proposal : ReceivePromise(n, p)
    \/ \E n \in Nodes, p \in Proposal : ReceiveAccept(n, p)
    \/ \E n \in Nodes, v \in Values : SetConsensus(n, v)
    \/ \E n \in Nodes : GoDown(n)
    \/ \E n \in Nodes : ResetConsensusReached(n)

SpecHandlers == Init /\ [][NextHandlers]_vars

\* A PaxosLogger constructed with any integer round, whose round the driver
\* also assigns to

\* the highest round a logger is given
MaxRound == 2

\* the values a driver assigns to logger.round: the ints -1..MaxRound and
\* the floats k + 0.5
RoundValues ==
    [type : {"int", "float"}, value : (-1)..MaxRound]

\* PaxosLogger.round setter: the round afterwards, and whether ValueError
\* was raised
round_setter(current, value) ==
    IF value.type = "int" /\ value.value >= 0
    THEN [round |-> value.value, raised |-> FALSE]
    ELSE [round |-> current, raised |-> TRUE]

\* PaxosLogger.__init__ stores its round argument as it is given
LoggerInit ==
    /\ nodes = [n \in Nodes |-> NewNode(n)]
    /\ round \in (-1)..MaxRound
    /\ steps = 0

\* logger.round = value
SetRound(value) ==
    /\ steps < MaxCalls
    /\ round' = round_setter(round, value).round
    /\ steps' = steps + 1
    /\ UNCHANGED nodes

NextLogger ==
    \/ NextHandlers
    \/ \E value \in RoundValues : SetRound(value)

SpecLogger == LoggerInit /\ [][NextLogger]_vars

----------------------------------------------------------------------------
\* The properties

\* N // 2 + 1 for the configured node count
Quorum == (node_count \div 2) + 1

\* cluster sizes the quorum arithmetic is checked for
MaxMembers == 7

Decided(n) == nodes[n].last_consensus # None

UpNodes == {n \in Nodes : nodes[n].state = UP}

\* the nodes that have recorded an acceptance of the key
Acceptors(k) == {n \in Nodes : nodes[n].acceptance_counts[k] > 0}

\* the highest proposal number in a set of promised numbers, 0 for none
MaxPromised(S) == IF S = {} THEN 0 ELSE CHOOSE x \in S : \A y \in S : x >= y

\* the step delivered a Prepare or an Accept to some node
PhaseStep ==
    \E n \in Nodes :
        \/ nodes'[n].received_promises # nodes[n].received_promises
        \/ nodes'[n].acceptance_counts # nodes[n].acceptance_counts

\* C1: agreement: any two nodes whose last_consensus is set hold the same
\* value, in every reachable state.
Agreement ==
    \A m, n \in Nodes :
        (Decided(m) /\ Decided(n))
            => nodes[m].last_consensus = nodes[n].last_consensus

\* C2: Decided is terminal: once a node's last_consensus is set to v, no
\* later step changes it to a different value.
DecidedIsTerminal ==
    [][\A n \in Nodes :
          Decided(n) => nodes'[n].last_consensus = nodes[n].last_consensus]_vars

\* C3: prepare gate: a node records a proposal number as promised only when
\* the number is strictly greater than every number it promised before; a
\* Prepare with a lower or equal number leaves received_promises unchanged.
PrepareGate ==
    [][\A n \in Nodes :
          \A b \in nodes'[n].received_promises \ nodes[n].received_promises :
              \A o \in nodes[n].received_promises : b > o]_vars

\* C4: accept gate: a node that has promised number b records no Accept
\* whose number is lower than b.
AcceptGate ==
    [][\A n \in Nodes : \A k \in Keys :
          nodes'[n].acceptance_counts[k] > nodes[n].acceptance_counts[k]
              => \A b \in nodes[n].received_promises : k[1] >= b]_vars

\* C5: value preservation: once a node has decided value w through the
\* accept phase at number b1, every Accept recorded afterwards for a higher
\* number carries w, never the later proposer's own value.
ValuePreservation ==
    [][\A m, n \in Nodes : \A k1, k2 \in Keys :
          (/\ nodes[m].acceptance_counts[k1] >= majority(nodes[m])
           /\ nodes[m].last_consensus = k1[2]
           /\ k2[1] > k1[1]
           /\ nodes'[n].acceptance_counts[k2] > nodes[n].acceptance_counts[k2])
              => k2[2] = k1[2]]_vars

\* C6: a node whose acceptance count for (number, value) has reached the
\* majority, so that receive_accept set its last_consensus, is backed by at
\* least N // 2 + 1 distinct nodes that accepted that (number, value).
DistinctQuorum ==
    \A n \in Nodes : \A k \in Keys :
        nodes[n].acceptance_counts[k] >= majority(nodes[n])
            => Cardinality(Acceptors(k)) >= Quorum

\* C7: while fewer than N // 2 + 1 nodes are UP, no step of the prepare or
\* accept phase changes any node's last_consensus.
MinorityNeverDecides ==
    [][(Cardinality(UpNodes) < Quorum /\ PhaseStep)
          => \A n \in Nodes :
                 nodes'[n].last_consensus = nodes[n].last_consensus]_vars

\* C8: a live majority decides in one round: when at least N // 2 + 1 nodes
\* have promised a proposal's number and accepted the proposal, its value is
\* the decided value of some node.
LiveMajorityDecides ==
    \A k \in Keys :
        Cardinality({n \in Acceptors(k) : k[1] \in nodes[n].received_promises})
                >= Quorum
            => \E n \in Nodes : nodes[n].last_consensus = k[2]

\* C9: quorum arithmetic: the threshold of the promise check and of the
\* accept check is the same at every node, is the least integer strictly
\* greater than half the configured node count, and stays so in every
\* reachable state, whatever the liveness of the nodes; the same holds for
\* a node constructed with any node count 1..MaxMembers.
QuorumArithmetic ==
    /\ \A n \in Nodes :
           /\ majority(nodes[n]) = majority_needed(nodes[n])
           /\ 2 * majority(nodes[n]) > node_count
           /\ 2 * (majority(nodes[n]) - 1) <= node_count
    /\ \A N \in 1..MaxMembers :
           LET self == [NewNode(1) EXCEPT !.totalnodecount = N]
           IN  /\ majority(self) = majority_needed(self)
               /\ 2 * majority(self) > N
               /\ 2 * (majority(self) - 1) <= N

\* C9 witness: an Accept was checked against the threshold at an UP node
\* while one node was DOWN and another BLOCKED.
QuorumArithmeticWitness ==
    \E a, b, c \in Nodes :
        /\ nodes[a].state = DOWN
        /\ nodes[b].state = BLOCKED
        /\ nodes[c].state = UP
        /\ \E k \in Keys : nodes[c].acceptance_counts[k] > 0

\* C10: monotonicity: the highest proposal number a node has promised never
\* decreases in any step.
PromisedMonotone ==
    [][\A n \in Nodes :
          MaxPromised(nodes'[n].received_promises)
              >= MaxPromised(nodes[n].received_promises)]_vars

\* C10 witness: a node has handled Prepares for two different numbers and an
\* Accept.
PromisedMonotoneWitness ==
    \E n \in Nodes :
        /\ Cardinality(nodes[n].received_promises) >= 2
        /\ \E k \in Keys : nodes[n].acceptance_counts[k] > 0

\* C11: in every reachable state, every proposal number a node has recorded
\* an acceptance for (a key of its acceptance_counts) is at most the highest
\* proposal number that node has promised.
AcceptedWithinPromised ==
    \A n \in Nodes : \A k \in Keys :
        nodes[n].acceptance_counts[k] > 0
            => k[1] <= MaxPromised(nodes[n].received_promises)

\* the step is the delivery of an Accept for the proposal to node n
AcceptDelivered(n, proposal) ==
    /\ SendAccept(proposal.node_id, proposal)
    /\ may_send(nodes[proposal.node_id])
    /\ delivers(nodes[proposal.node_id], nodes[n])

\* C12: once a node has decided v, the delivery of an Accept it has already
\* recorded (same number and value), and the delivery of a broadcast that
\* carries the value it holds, leave its decided value equal to v.
RedeliveryIdempotent ==
    [][\A n \in Nodes, p \in Proposal :
           /\ Decided(n)
           /\ \/ ReceiveBroadcast(n, p) /\ nodes[n].last_consensus = p.value
              \/ AcceptDelivered(n, p) /\ nodes[n].acceptance_counts[key(p)] > 0
           => nodes'[n].last_consensus = nodes[n].last_consensus]_vars

\* the driver of SpecHandlers has a call left to make
CanCall == steps < MaxCalls

\* the call left what the node has promised, accepted and decided as it was
Untouched(before, after) ==
    /\ after.received_promises = before.received_promises
    /\ after.acceptance_counts = before.acceptance_counts
    /\ after.last_consensus = before.last_consensus

\* the call left the node with the number promised, or with the Accept counted
Promised(after, proposal) ==
    proposal.proposal_number \in after.received_promises

Counted(before, after, proposal) ==
    after.acceptance_counts[key(proposal)]
        = before.acceptance_counts[key(proposal)] + 1

\* C13: a send_prepare or send_accept by an UP proposer leaves
\* received_promises, acceptance_counts and last_consensus of every node that
\* is DOWN or BLOCKED unchanged, and every UP node receives the message.
UnreachableUntouched ==
    \A p \in Proposal :
        CanCall /\ nodes[p.node_id].state = UP =>
            LET prepared == send_prepare(nodes[p.node_id], nodes, p).nodes
                accepted == send_accept(nodes[p.node_id], nodes, p).nodes
            IN  \A n \in Nodes :
                    IF nodes[n].state = UP
                    THEN /\ Promised(prepared[n], p)
                         /\ Counted(nodes[n], accepted[n], p)
                    ELSE /\ Untouched(nodes[n], prepared[n])
                         /\ Untouched(nodes[n], accepted[n])

\* a Prepare went out while a node was not UP: that node has promised
\* nothing, an UP node has
UnreachableUntouchedWitness ==
    \E a, b \in Nodes :
        /\ nodes[a].state # UP
        /\ nodes[a].received_promises = {}
        /\ nodes[b].state = UP
        /\ nodes[b].received_promises # {}

\* C14: a send_prepare or send_accept by a proposer that is DOWN or BLOCKED
\* changes received_promises, acceptance_counts and last_consensus of no node.
SilentSender ==
    \A p \in Proposal :
        CanCall /\ nodes[p.node_id].state # UP =>
            \A n \in Nodes :
                /\ Untouched(nodes[n],
                       send_prepare(nodes[p.node_id], nodes, p).nodes[n])
                /\ Untouched(nodes[n],
                       send_accept(nodes[p.node_id], nodes, p).nodes[n])

\* the node has promised, accepted and decided nothing
Pristine(n) ==
    /\ nodes[n].received_promises = {}
    /\ \A k \in Keys : nodes[n].acceptance_counts[k] = 0
    /\ nodes[n].last_consensus = None

\* a proposer that is DOWN or BLOCKED can call, a node its messages would
\* reach is UP, and what the calls record is one PrepareNotSent to nobody
SilentSenderWitness ==
    \E p \in Proposal, n \in Nodes :
        /\ CanCall
        /\ nodes[p.node_id].state # UP
        /\ nodes[n].state = UP
        /\ send_prepare(nodes[p.node_id], nodes, p).log[1].action
               = "PrepareNotSent"
        /\ send_prepare(nodes[p.node_id], nodes, p).log[1].to_node_id = "N/A"
        /\ send_accept(nodes[p.node_id], nodes, p).log = <<>>

\* C15: liveness is read at each delivery: a Prepare, an Accept or a
\* broadcast addressed to a node is handled if the node is UP at that moment
\* and is not handled if it is DOWN or BLOCKED, whatever its liveness was
\* before.
LivenessReadAtDelivery ==
    CanCall => \A p \in Proposal :
        LET sender == nodes[p.node_id]
            prepared == send_prepare(sender, nodes, p).nodes
            accepted == send_accept(sender, nodes, p).nodes
        IN  \A n \in Nodes :
                LET broadcast == receive_broadcast(nodes[n], p).node
                IN  IF nodes[n].state = UP
                    THEN /\ broadcast.last_consensus = p.value
                         /\ may_send(sender) =>
                                /\ Promised(prepared[n], p)
                                /\ Counted(nodes[n], accepted[n], p)
                    ELSE /\ Untouched(nodes[n], broadcast)
                         /\ Untouched(nodes[n], prepared[n])
                         /\ Untouched(nodes[n], accepted[n])

\* the caller has taken a node down and the next Accept has gone out: the
\* node has recorded nothing, a node that is UP has recorded the Accept
LivenessReadAtDeliveryWitness ==
    \E a, b \in Nodes, k \in Keys :
        /\ nodes[a].state # UP /\ Pristine(a)
        /\ nodes[b].state = UP
        /\ nodes[b].acceptance_counts[k] = 1

\* the state fields of the nodes
States(ns) == [n \in Nodes |-> ns[n].state]

\* C16: no protocol operation (send_prepare, receive_prepare, send_promise,
\* receive_promise, send_accept, receive_accept, receive_broadcast,
\* set_consensus, go_down) changes the liveness state of any node: called in
\* any reachable state with any argument, each leaves every state field as
\* it is.
LivenessOnlyByCaller ==
    CanCall => \A n \in Nodes :
        /\ go_down(nodes[n]).node.state = nodes[n].state
        /\ \A v \in Values :
               set_consensus(nodes[n], v).node.state = nodes[n].state
        /\ \A p \in Proposal :
               /\ p.node_id = n =>
                      /\ States(send_prepare(nodes[n], nodes, p).nodes)
                             = States(nodes)
                      /\ States(send_accept(nodes[n], nodes, p).nodes)
                             = States(nodes)
               /\ receive_prepare(nodes[n], p).node.state = nodes[n].state
               /\ send_promise(nodes[n], p).node.state = nodes[n].state
               /\ receive_promise(nodes[n], p).node.state = nodes[n].state
               /\ receive_accept(nodes[n], p).node.state = nodes[n].state
               /\ receive_broadcast(nodes[n], p).node.state = nodes[n].state

\* a protocol operation has run on a node and the caller has changed its
\* liveness: the node has promised and is DOWN or BLOCKED
LivenessOnlyByCallerWitness ==
    \E n \in Nodes :
        /\ nodes[n].state # UP
        /\ nodes[n].received_promises # {}

\* C18: an Accept for a proposal number the receiving node has not promised
\* in a preceding Prepare is not processed as an acceptance: the node's
\* acceptance_counts and last_consensus stay as they are.
InvalidTransition ==
    [][\A n \in Nodes, p \in Proposal :
           /\ AcceptDelivered(n, p)
           /\ p.proposal_number \notin nodes[n].received_promises
           => /\ nodes'[n].acceptance_counts = nodes[n].acceptance_counts
              /\ nodes'[n].last_consensus = nodes[n].last_consensus]_vars

\* the action tags of a sequence of log entries
Tags(log) == {log[i].action : i \in DOMAIN log}

\* the action tags of the entries a call made in the current state records
RecordedTags ==
    UNION ( {Tags(send_prepare(nodes[p.node_id], nodes, p).log) : p \in Proposal}
            \cup {Tags(send_accept(nodes[p.node_id], nodes, p).log) : p \in Proposal}
            \cup {Tags(receive_broadcast(nodes[n], p).log) :
                      n \in Nodes, p \in Proposal} )

\* the action tags the audit log is specified to hold
AuditActions ==
    {"PrepareSend", "PrepareReject", "PromiseSend", "AcceptSend",
     "AcceptReject", "AcceptedSend", "Decide"}

\* C19: after any sequence of node operations, every event an operation
\* records in the audit log has an action tag in {PrepareSend, PrepareReject,
\* PromiseSend, AcceptSend, AcceptReject, AcceptedSend, Decide}.
AuditTagsInEnum == RecordedTags \subseteq AuditActions

\* C21: after receive_broadcast(p) is handled by an UP node, the node's
\* last_consensus equals p.value, whatever the node held before.
BroadcastSetsConsensus ==
    CanCall =>
        \A n \in Nodes, p \in Proposal :
            nodes[n].state = UP
                => receive_broadcast(nodes[n], p).node.last_consensus = p.value

\* an UP node that holds one value handles a broadcast of another and holds
\* the broadcast value afterwards
BroadcastSetsConsensusWitness ==
    \E n \in Nodes, p \in Proposal :
        /\ CanCall
        /\ nodes[n].state = UP
        /\ nodes[n].last_consensus \notin {None, p.value}
        /\ receive_broadcast(nodes[n], p).node.last_consensus = p.value
        /\ Len(receive_broadcast(nodes[n], p).log) = 3

BothPrepared(p1, p2) ==
    LET first == send_prepare(nodes[p1.node_id], nodes, p1).nodes
    IN  send_prepare(first[p2.node_id], first, p2).nodes

\* an acceptor other than the proposer holds the proposal's number and
\* answers the proposal with a promise for it
ObtainsPromise(ns, proposal) ==
    \E n \in Nodes \ {proposal.node_id} :
        /\ proposal.proposal_number \in ns[n].received_promises
        /\ send_promise(ns[n], proposal).ret # <<>>
        /\ send_promise(ns[n], proposal).ret[1].proposal_number
               = proposal.proposal_number

\* C23: when two UP proposers with different proposal numbers both send
\* Prepare to the same UP acceptors, each of the two proposals obtains at
\* least one promise from the acceptors other than its proposer, whichever
\* Prepare arrived first.
ConcurrentProposalsPromised ==
    CanCall =>
        \A p1, p2 \in Proposal :
            /\ p1.node_id # p2.node_id
            /\ p1.proposal_number # p2.proposal_number
            /\ nodes[p1.node_id].state = UP
            /\ nodes[p2.node_id].state = UP
            => LET both == BothPrepared(p1, p2)
               IN  ObtainsPromise(both, p1) /\ ObtainsPromise(both, p2)

\* two Prepares with different numbers have gone out: an acceptor that is UP
\* holds both numbers, the lower one is answered with a promise
ConcurrentProposalsPromisedWitness ==
    \E n \in Nodes, p \in Proposal :
        /\ nodes[n].state = UP
        /\ n # p.node_id
        /\ nodes[p.node_id].state = UP
        /\ p.proposal_number \in nodes[n].received_promises
        /\ \E x \in nodes[n].received_promises : x > p.proposal_number
        /\ send_promise(nodes[n], p).ret # <<>>

\* the values the node has recorded an acceptance for
AcceptedValues(n) ==
    {k[2] : k \in {kk \in Keys : nodes[n].acceptance_counts[kk] > 0}}

\* C24: the promise returned by an UP node that has earlier handled an
\* Accept for some (number, value) reports that value with
\* consensus_achieved true, and the promise of a node that has accepted
\* nothing reports empty.
PromiseCarriesAccepted ==
    \A n \in Nodes, p \in Proposal :
        nodes[n].state = UP =>
            LET promise == send_promise(nodes[n], p).ret[1]
            IN  IF AcceptedValues(n) # {}
                THEN /\ promise.consensus_achieved
                     /\ promise.last_consensus \in AcceptedValues(n)
                ELSE /\ ~promise.consensus_achieved
                     /\ promise.last_consensus = "None"

\* the acceptances recorded for the key, summed over the nodes 1..m
RECURSIVE Recorded(_, _, _)
Recorded(ns, k, m) ==
    IF m = 0 THEN 0 ELSE Recorded(ns, k, m - 1) + ns[m].acceptance_counts[k]

\* C25: one send_accept(nodes, p) by an UP proposer raises the acceptance
\* count for the key (p.proposal_number, p.value) by exactly one at every UP
\* node, the proposer included, and changes no other count; with at least
\* N // 2 + 1 nodes UP the acceptances recorded for the proposal, summed
\* over all nodes, are then at least N // 2 + 1.
AcceptCountedOnce ==
    CanCall =>
        \A p \in Proposal :
            nodes[p.node_id].state = UP =>
                LET accepted == send_accept(nodes[p.node_id], nodes, p).nodes
                IN  /\ \A n \in Nodes, k \in Keys :
                           accepted[n].acceptance_counts[k]
                               = nodes[n].acceptance_counts[k]
                                 + IF nodes[n].state = UP /\ k = key(p)
                                   THEN 1 ELSE 0
                    /\ Cardinality(UpNodes) >= Quorum
                           => Recorded(accepted, key(p), node_count) >= Quorum

\* a send_accept has gone out with every node UP: each node has recorded the
\* key once, and the next send_accept makes it twice
AcceptCountedOnceWitness ==
    \E p \in Proposal :
        /\ CanCall
        /\ \A n \in Nodes :
               /\ nodes[n].state = UP
               /\ nodes[n].acceptance_counts[key(p)] = 1
        /\ Recorded(send_accept(nodes[p.node_id], nodes, p).nodes, key(p),
                    node_count) = 2 * node_count

\* the entries node n records when it receives the promise q2 after q1
PromisesReceivedLog(n, q1, q2) ==
    receive_promise(receive_promise(nodes[n], q1).node, q2).log

\* C26: decide_on_promises_received records a ConsensusAchieved event for a
\* value if at least N // 2 + 1 of the promises the proposer has received
\* report that same previously reached consensus value, and the value
\* recorded is that consensus value: two promises for one proposal number
\* from two different nodes that report the same value are such a majority
\* of 3.
ReadoptsOnMajority ==
    \A n \in Nodes, q1, q2 \in Proposal :
        /\ q1.node_id # q2.node_id
        /\ q1.proposal_number = q2.proposal_number
        /\ q1.value = q2.value
        => \E i \in DOMAIN PromisesReceivedLog(n, q1, q2) :
               /\ PromisesReceivedLog(n, q1, q2)[i].action = "ConsensusAchieved"
               /\ PromisesReceivedLog(n, q1, q2)[i].consensus_value = q1.value

\* C27: ballots are (sequence, proposer id) pairs and distinct pairs are
\* never treated as equal: two proposals with the same proposal number from
\* different proposers are tracked separately by every acceptor, so its
\* promise record after promising the one differs from its promise record
\* after promising the other, and likewise its acceptance count.
BallotsArePairs ==
    \A n \in Nodes, p1, p2 \in Proposal :
        /\ nodes[n].state = UP
        /\ p1.node_id # p2.node_id
        /\ p1.proposal_number = p2.proposal_number
        /\ p1.value = p2.value
        => /\ send_promise(nodes[n], p1).node.received_promises
                  # send_promise(nodes[n], p2).node.received_promises
           /\ receive_accept(nodes[n], p1).node.acceptance_counts
                  # receive_accept(nodes[n], p2).node.acceptance_counts

\* deliveries of one Accept that are followed one after another
MaxDeliveries == 3

\* the proposer that makes the j-th delivery, starting from the proposal's
FromProposer(proposal, j) ==
    [proposal EXCEPT !.node_id = ((proposal.node_id + j - 2) % node_count) + 1]

\* the node after k proposers in turn have delivered the Accept to it: the
\* calls are made one after another, each on what the one before left
RECURSIVE Delivered(_, _, _)
Delivered(self, proposal, k) ==
    IF k = 0 THEN self
    ELSE receive_accept(Delivered(self, proposal, k - 1),
                        FromProposer(proposal, k)).node

DownNodeUnchanged ==
    \A n \in Nodes, p \in Proposal :
        nodes[n].state # UP =>
            /\ Untouched(nodes[n], receive_prepare(nodes[n], p).node)
            /\ Untouched(nodes[n], send_promise(nodes[n], p).node)
            /\ send_promise(nodes[n], p).ret = <<>>
            /\ Untouched(nodes[n], receive_promise(nodes[n], p).node)
            /\ Untouched(nodes[n], receive_accept(nodes[n], p).node)
            /\ Untouched(nodes[n], receive_broadcast(nodes[n], p).node)

\* the position of the first entry of the log with the action and the
\* receiving node, 0 if there is none
FirstEntry(log, action, to_node_id) ==
    LET at == {i \in DOMAIN log : /\ log[i].action = action
                                  /\ log[i].to_node_id = to_node_id}
    IN  IF at = {} THEN 0 ELSE CHOOSE i \in at : \A j \in at : i <= j

\* C30: for every message delivered from a proposer to a node, the send
\* event (PrepareSend, AcceptSend) is appended to the log before the events
\* the receiver records while handling that message (PrepareReceive and
\* PromiseSend, AcceptReceive).
SendLoggedBeforeReceive ==
    \A p \in Proposal, n \in Nodes :
        nodes[p.node_id].state = UP /\ nodes[n].state = UP =>
            LET prepare == send_prepare(nodes[p.node_id], nodes, p).log
                accept == send_accept(nodes[p.node_id], nodes, p).log
            IN  /\ FirstEntry(prepare, "PrepareSend", n)
                       < FirstEntry(prepare, "PrepareReceive", n)
                /\ FirstEntry(accept, "AcceptSend", n)
                       < FirstEntry(accept, "AcceptReceive", n)

\* the Prepare phase left the node's acceptances and decision as they were
\* and took nothing out of what it has promised
PreparePhaseFrame(before, after) ==
    /\ after.acceptance_counts = before.acceptance_counts
    /\ after.last_consensus = before.last_consensus
    /\ before.received_promises \subseteq after.received_promises

\* the Accept phase left what the node has promised as it was and lowered
\* no acceptance count
AcceptPhaseFrame(before, after) ==
    /\ after.received_promises = before.received_promises
    /\ \A k \in Keys :
           after.acceptance_counts[k] >= before.acceptance_counts[k]

\* C31: each phase changes only its own bookkeeping: send_prepare,
\* receive_prepare, send_promise and receive_promise leave acceptance_counts
\* and last_consensus of every node unchanged and only ever add to
\* received_promises; send_accept and receive_accept leave received_promises
\* of every node unchanged and never lower or remove an acceptance count.
PhaseFrame ==
    CanCall =>
        \A p \in Proposal :
            LET prepared == send_prepare(nodes[p.node_id], nodes, p).nodes
                accepted == send_accept(nodes[p.node_id], nodes, p).nodes
            IN  \A n \in Nodes :
                    /\ PreparePhaseFrame(nodes[n], prepared[n])
                    /\ PreparePhaseFrame(nodes[n],
                                         receive_prepare(nodes[n], p).node)
                    /\ PreparePhaseFrame(nodes[n],
                                         send_promise(nodes[n], p).node)
                    /\ PreparePhaseFrame(nodes[n],
                                         receive_promise(nodes[n], p).node)
                    /\ AcceptPhaseFrame(nodes[n], accepted[n])
                    /\ AcceptPhaseFrame(nodes[n],
                                        receive_accept(nodes[n], p).node)

\* a Prepare has reached a node, which has promised and accepted nothing;
\* both phases can act on it: a further promise is added to what it has
\* promised, an Accept raises a count and leaves the promises alone
PhaseFrameWitness ==
    \E n \in Nodes, p \in Proposal :
        /\ CanCall
        /\ nodes[n].state = UP
        /\ nodes[n].received_promises # {}
        /\ \A k \in Keys : nodes[n].acceptance_counts[k] = 0
        /\ p.proposal_number \notin nodes[n].received_promises
        /\ receive_promise(nodes[n], p).node.received_promises
               = nodes[n].received_promises \cup {p.proposal_number}
        /\ receive_accept(nodes[n], p).node.acceptance_counts[key(p)]
               > nodes[n].acceptance_counts[key(p)]

\* C32: the logger's consensus round is a non-negative integer in every
\* reachable state of a PaxosLogger, right after construction included; an
\* assignment of a negative or non-integer value to it raises ValueError and
\* leaves round as it was.
RoundNonNegative ==
    /\ round \in Nat
    /\ \A value \in RoundValues :
           value.type # "int" \/ value.value < 0
               => /\ round_setter(round, value).raised
                  /\ round_setter(round, value).round = round

====
